---- MODULE Spec2Model ----
(***************************************************************************)
(* Venstar thermostat integration: the poll cycle of a config entry, its   *)
(* connection state, the entity adapters' availability and the write paths *)
(* of the climate entity.                                                  *)
(*                                                                         *)
(* The vendor client (VenstarColorTouch) and the hub's coordinator are     *)
(* external: a client call is a step whose result is chosen by the         *)
(* environment.                                                            *)
(***************************************************************************)
EXTENDS Integers, Sequences, FiniteSets, TLC

\* ------------------------------------------------------------------------
\* Bounds of the model
\* ------------------------------------------------------------------------

\* the config entries of the hub
Entries == {"entry1", "entry2"}

\* temperatures and humidity levels are 1..MaxValue; 0 stands for None
MaxValue == 2

\* number of adapter write operations the hub issues in one behaviour
MaxWrites == 1

Values == 1 .. MaxValue

\* scan intervals and timeouts (seconds) a user or a YAML file can give are
\* 1..MaxSeconds; 0 stands for a key that is not there
MaxSeconds == 11

\* refresh calls of ended cycles that can be running at once
MaxAbandoned == 2

\* config flows started one after the other
MaxFlows == 2

\* ------------------------------------------------------------------------
\* Program constants
\* ------------------------------------------------------------------------

PLATFORMS == {"climate", "sensor"}

HVAC_MODE_HEAT == "heat"
HVAC_MODE_COOL == "cool"
HVAC_MODE_AUTO == "auto"
HVAC_MODE_OFF == "off"
STATE_ON == "on"
FAN_ON == "on"
FAN_AUTO == "auto"
PRESET_AWAY == "away"
PRESET_NONE == "none"
HOLD_MODE_TEMPERATURE == "temperature"

VALID_FAN_STATES == {STATE_ON, HVAC_MODE_AUTO}
VALID_THERMOSTAT_MODES == {HVAC_MODE_HEAT, HVAC_MODE_COOL, HVAC_MODE_OFF, HVAC_MODE_AUTO}

\* values of the client's attributes (names imported by climate.py)
VENSTAR_MODE_OFF == "MODE_OFF"
VENSTAR_MODE_HEAT == "MODE_HEAT"
VENSTAR_MODE_COOL == "MODE_COOL"
VENSTAR_MODE_AUTO == "MODE_AUTO"
VENSTAR_FAN_AUTO == "FAN_AUTO"
VENSTAR_FAN_ON == "FAN_ON"
VENSTAR_AWAY_HOME == "AWAY_HOME"
VENSTAR_AWAY_AWAY == "AWAY_AWAY"
VENSTAR_SCHEDULE_DISABLED == "SCHEDULE_DISABLED"
VENSTAR_SCHEDULE_ENABLED == "SCHEDULE_ENABLED"

NoneValue == "None"

DEFAULT_CONF_SCAN_INTERVAL == 10
DEFAULT_CONF_SENSORS == TRUE
DEFAULT_CONF_TIMEOUT == 5

\* A Python str whose characters matter is a sequence of characters; None
\* and "" (both falsy) are the empty sequence.
NoString == << >>

SENSOR_BATTERY == <<"b", "a", "t", "t", "e", "r", "y">>
SENSOR_HUMIDITY == <<"h", "u", "m">>
SENSOR_ID == <<"i", "d">>
SENSOR_TEMPERATURE == <<"t", "e", "m", "p">>

\* the keys of SENSOR_ATTRIBUTES
SENSOR_ATTRIBUTES ==
    {SENSOR_BATTERY, SENSOR_HUMIDITY, SENSOR_ID, SENSOR_TEMPERATURE}

\* the hub vocabulary -> vendor vocabulary table used by set_temperature
MODE_MAP ==
    [m \in VALID_THERMOSTAT_MODES |->
        CASE m = HVAC_MODE_HEAT -> VENSTAR_MODE_HEAT
          [] m = HVAC_MODE_COOL -> VENSTAR_MODE_COOL
          [] m = HVAC_MODE_AUTO -> VENSTAR_MODE_AUTO
          [] OTHER -> VENSTAR_MODE_OFF]

\* MODE_MAP.get(key, default)
ModeMapGet(key, default) ==
    IF key \in DOMAIN MODE_MAP THEN MODE_MAP[key] ELSE default

\* ------------------------------------------------------------------------
\* The device snapshot held by the client
\* ------------------------------------------------------------------------

\* attributes of a client right after construction: nothing fetched yet
EmptySnapshot ==
    [mode |-> NoneValue, fan |-> NoneValue, away |-> NoneValue,
     schedule |-> NoneValue, heattemp |-> 0, cooltemp |-> 0,
     hum_setpoint |-> 0, runtime |-> "absent", sensor |-> NoneValue]

\* what a successful update_info can store (sensor readings are left to
\* update_sensors): representative device states
DeviceReports ==
    { [mode |-> VENSTAR_MODE_OFF, fan |-> VENSTAR_FAN_AUTO,
       away |-> VENSTAR_AWAY_HOME, schedule |-> VENSTAR_SCHEDULE_ENABLED,
       heattemp |-> 1, cooltemp |-> MaxValue, hum_setpoint |-> 1,
       runtime |-> "number"],
      [mode |-> VENSTAR_MODE_HEAT, fan |-> VENSTAR_FAN_ON,
       away |-> VENSTAR_AWAY_AWAY, schedule |-> VENSTAR_SCHEDULE_DISABLED,
       heattemp |-> 1, cooltemp |-> MaxValue, hum_setpoint |-> 1,
       runtime |-> "absent"],
      [mode |-> VENSTAR_MODE_COOL, fan |-> VENSTAR_FAN_AUTO,
       away |-> VENSTAR_AWAY_HOME, schedule |-> VENSTAR_SCHEDULE_DISABLED,
       heattemp |-> 1, cooltemp |-> MaxValue, hum_setpoint |-> 1,
       runtime |-> "number"],
      [mode |-> VENSTAR_MODE_AUTO, fan |-> VENSTAR_FAN_ON,
       away |-> VENSTAR_AWAY_AWAY, schedule |-> VENSTAR_SCHEDULE_ENABLED,
       heattemp |-> 1, cooltemp |-> MaxValue, hum_setpoint |-> 1,
       runtime |-> "number"] }

\* what a successful update_sensors can store for the reading of a sensor
SensorReports == {NoneValue, "number"}

VARIABLES
    setup,             \* position of async_setup_entry of each entry
    setup_result,      \* what async_setup_entry last returned or raised
    registered,        \* the keys of hass.data[DOMAIN]
    connection_state,  \* hass.data[DOMAIN][entry][ENTRY_CONNECTION_STATE]
    platforms,         \* platforms the entry was forwarded to
    entities,          \* adapters created by the platforms of the entry
    poll,              \* the running async_update_data of each entry
    cycle,             \* the most recently completed poll cycle of each entry
    client,            \* the snapshot held by the client of each entry
    wr,                \* the adapter write operation in progress or last done
    nwrites,           \* number of write operations started
    config_entry,      \* the hub's ConfigEntry of each entry (source, unique id, data, options)
    listeners,         \* entries whose update_listener is attached
    reload_requested,  \* entries whose update_listener was called: a reload is due
    options_flow,      \* what OptionsFlowHandler.async_step_init last returned
    unload_result,     \* what async_unload_entry last returned
    applied,           \* interval and timeout the coordinator of the entry runs with
    executor,          \* refresh calls of ended cycles still running in executor threads
    device_sensors,    \* names of the sensors the device reports
    unique_ids,        \* the hub's registry: identifiers of the adapters added
    flow,              \* the ConfigFlow object in progress and what its last step returned
    flow_entries       \* the config entries the config flows created (unique id, data)

\* the hub's configuration state
hubvars == <<config_entry, listeners, reload_requested, options_flow,
             unload_result, applied>>

\* sensor names and registered identifiers
idvars == <<device_sensors, unique_ids>>

\* the config flow and the entries it made
flowvars == <<flow, flow_entries>>

vars == <<setup, setup_result, registered, connection_state, platforms,
          entities, poll, cycle, client, wr, nwrites, hubvars, executor, idvars, flowvars>>

\* the client's update_info: a truthy result means the snapshot was replaced
ClientUpdateInfo(snapshot, info_success, report) ==
    IF info_success
      THEN [f \in DOMAIN snapshot |->
              IF f = "sensor" THEN snapshot.sensor ELSE report[f]]
      ELSE snapshot

\* the client's update_sensors: a truthy result means the readings were replaced
ClientUpdateSensors(snapshot, sensor_success, reading) ==
    IF sensor_success THEN [snapshot EXCEPT !.sensor = reading] ELSE snapshot

IdlePoll == [pc |-> "idle", info_success |-> FALSE]

NoCycle ==
    [completed |-> FALSE, info |-> "not_called", sensors |-> "not_called",
     raised |-> "none", before |-> FALSE]

NoWrite ==
    [entry |-> NoneValue, op |-> NoneValue, pc |-> "idle",
     hvac_mode |-> NoneValue, temperature |-> 0, target_temp_low |-> 0,
     target_temp_high |-> 0, fan_mode |-> NoneValue, humidity |-> 0,
     preset_mode |-> NoneValue, effective_mode |-> NoneValue,
     calls |-> << >>, results |-> << >>, log |-> << >>]

\* entry.entry_id
EntryId(e) == IF e = "entry1" THEN <<"e", "1">> ELSE <<"e", "2">>

\* entry.options of an entry whose options form was never submitted
NoOptions == [scan_interval |-> 0, timeout |-> 0, sensors |-> NoneValue]

\* no ConfigEntry of that name in the hub
NoEntry(e) ==
    [source |-> "none", entry_id |-> EntryId(e), unique_id |-> NoString,
     data_timeout |-> 0, options |-> NoOptions]

\* a ConfigEntry made from the user form: its data holds no timeout; its
\* unique id is the one the flow constructed
UserEntry(e, unique_id) ==
    [NoEntry(e) EXCEPT !.source = "user", !.unique_id = unique_id]

\* unique ids the config flow gives: a MAC address or a host name, or none
FlowUniqueIds == {NoString, <<"m", "a", "c">>}

\* names of sensors a device can report
SensorNames == {<<"R", " ", "1">>, <<"R", "_", "1">>, <<"R", "-", "1">>}

\* the runtimes key the device reports (beside RUNTIME_TS)
RuntimeKeys == {<<"h", "e", "a", "t", "1">>}

\* the name of an alert the device reports
AlertNames == {<<"F", "i", "l", "t", "e", "r">>}

\* ConfigFlow.__init__: no unique id yet; nothing returned yet (n counts the
\* flows started so far)
NewConfigFlow ==
    [pc |-> "init", source |-> NoneValue, unique_id |-> NoString,
     errors |-> NoneValue, n |-> 1]

NoFlowResult == [type |-> NoneValue, errors |-> NoneValue, data |-> NoOptions]

NoUnload == [returned |-> NoneValue, unloaded |-> {}]

NoCoordinator == [interval |-> 0, timeout |-> 0]

\* the hub before any entry is set up, for given ConfigEntries and sensor names
InitWith(entry, sensors) ==
    /\ setup = [e \in Entries |-> "unset"]
    /\ setup_result = [e \in Entries |-> NoneValue]
    /\ registered = {}
    /\ connection_state = [e \in Entries |-> FALSE]
    /\ platforms = [e \in Entries |-> {}]
    /\ entities = [e \in Entries |-> {}]
    /\ poll = [e \in Entries |-> IdlePoll]
    /\ cycle = [e \in Entries |-> NoCycle]
    /\ client = [e \in Entries |-> EmptySnapshot]
    /\ wr = NoWrite
    /\ nwrites = 0
    /\ config_entry = entry
    /\ listeners = {}
    /\ reload_requested = {}
    /\ options_flow = [e \in Entries |-> NoFlowResult]
    /\ unload_result = [e \in Entries |-> NoUnload]
    /\ applied = [e \in Entries |-> NoCoordinator]
    /\ executor = [e \in Entries |-> << >>]
    /\ device_sensors = sensors
    /\ unique_ids = [e \in Entries |-> {}]
    /\ flow = NewConfigFlow
    /\ flow_entries = {}

\* every entry was made from the user form and never had its options changed
Init ==
    InitWith([e \in Entries |-> UserEntry(e, <<"m", "a", "c">> \o EntryId(e))],
             {<<"R", " ", "1">>})

\* ------------------------------------------------------------------------
\* async_setup_entry
\* ------------------------------------------------------------------------

\* the connection state a new record of hass.data[DOMAIN] starts with
InitialConnectionState == FALSE

\* api.login() returned a falsy value: ConfigEntryNotReady, nothing registered
SetupLoginFails(e) ==
    /\ setup[e] = "unset"
    /\ setup_result' = [setup_result EXCEPT ![e] = "ConfigEntryNotReady"]
    /\ UNCHANGED <<setup, registered, connection_state, platforms, entities,
                   poll, cycle, client, wr, nwrites,
                   hubvars, executor, idvars, flowvars>>

\* dict.get(key, default) of a number, 0 standing for a missing key
Get(value, default) == IF value = 0 THEN default ELSE value

\* `interval` and `timeout` of async_setup_entry
CoordinatorSettings(entry) ==
    [interval |-> Get(entry.options.scan_interval, DEFAULT_CONF_SCAN_INTERVAL),
     timeout |-> Get(entry.options.timeout,
                     Get(entry.data_timeout, DEFAULT_CONF_TIMEOUT))]

\* api.login() succeeded: a new client, the options listener, the record of
\* the entry, and the first refresh of the coordinator is started (its
\* update_info is submitted)
SetupRegister(e) ==
    /\ config_entry[e].source # "none"
    /\ setup[e] = "unset"
    /\ applied' = [applied EXCEPT ![e] = CoordinatorSettings(config_entry[e])]
    /\ listeners' = listeners \cup {e}
    /\ unload_result' = [unload_result EXCEPT ![e] = NoUnload]
    /\ executor' = [executor EXCEPT ![e] = << >>]
    /\ setup' = [setup EXCEPT ![e] = "first_refresh"]
    /\ setup_result' = [setup_result EXCEPT ![e] = NoneValue]
    /\ registered' = registered \cup {e}
    /\ connection_state' = [connection_state EXCEPT ![e] = InitialConnectionState]
    /\ client' = [client EXCEPT ![e] = EmptySnapshot]
    /\ cycle' = [cycle EXCEPT ![e] = NoCycle]
    /\ poll' = [poll EXCEPT ![e] = [pc |-> "update_info", info_success |-> FALSE]]
    /\ reload_requested' = reload_requested \ {e}
    /\ UNCHANGED <<platforms, entities, wr, nwrites, config_entry,
                   options_flow, idvars, flowvars>>

\* entry.options.get(CONF_SENSORS, DEFAULT_CONF_SENSORS)
SensorsOption(entry) ==
    IF entry.options.sensors = NoneValue THEN DEFAULT_CONF_SENSORS
    ELSE entry.options.sensors = "True"

\* adapters the climate and sensor platforms create from the client
\* (climate.py async_setup_entry, sensor.py async_setup_entry)
CreatedEntities(entry, sensors, snapshot) ==
    {"VenstarThermostat"}
      \cup (IF SensorsOption(entry) /\ sensors # {} /\ snapshot.sensor = "number"
              THEN {"VenstarSensor"} ELSE {})
      \cup (IF snapshot.runtime = "number" THEN {"VenstarRuntimeSensor"} ELSE {})

\* str.replace(old, new) for single characters
Replace(str, old, new) ==
    [i \in 1 .. Len(str) |-> IF str[i] = old THEN new ELSE str[i]]

\* `self._config_entry.unique_id or self._config_entry.entry_id`
EntryIdentifier(entry) ==
    IF entry.unique_id # NoString THEN entry.unique_id ELSE entry.entry_id

\* VenstarThermostat.unique_id, and the device identifier of the thermostat
VenstarThermostatUniqueId(entry) ==
    EntryIdentifier(entry)
      \o <<"-", "T", "h", "e", "r", "m", "o", "s", "t", "a", "t",
            "-", "D", "e", "v", "i", "c", "e">>

\* an identifier made of what the sensor last read
VenstarSensorUniqueIdOfReading(entry, sensor, attr, snapshot) ==
    EntryIdentifier(entry) \o <<"-">> \o Replace(sensor, " ", "_")
      \o <<"-">> \o (IF snapshot.sensor = "number" THEN Replace(attr, " ", "_")
                      ELSE <<"N", "o", "n", "e">>)

\* VenstarSensor.unique_id (snapshot: the client the adapter holds)
VenstarSensorUniqueId(entry, sensor, attr, snapshot) ==
    EntryIdentifier(entry) \o <<"-">> \o Replace(sensor, " ", "_")
      \o <<"-">> \o Replace(attr, " ", "_")

\* the device identifier in VenstarSensor.device_info
VenstarSensorDeviceId(entry, sensor) ==
    EntryIdentifier(entry) \o <<"-">> \o Replace(sensor, " ", "_")

\* VenstarRuntimeSensor.unique_id
VenstarRuntimeSensorUniqueId(entry, sensor) ==
    EntryIdentifier(entry) \o <<"-", "r", "u", "n", "t", "i", "m", "e", "-">>
      \o Replace(sensor, " ", "_")

\* VenstarAlertSensor.unique_id
VenstarAlertSensorUniqueId(entry, sensor) ==
    EntryIdentifier(entry) \o <<"-", "a", "l", "e", "r", "t", "-">>
      \o Replace(sensor, " ", "_")

\* what the hub registers for the adapters the platforms add: each adapter
\* with the unique_id and the device identifier it has when it is added
RegisteredIds(entry, kinds, sensors, snapshot) ==
    (IF "VenstarThermostat" \in kinds
       THEN {[kind |-> "VenstarThermostat", sensor |-> NoString, attr |-> NoString,
              unique_id |-> VenstarThermostatUniqueId(entry),
              device |-> VenstarThermostatUniqueId(entry)]}
       ELSE {})
    \cup
    (IF "VenstarSensor" \in kinds
       THEN {[kind |-> "VenstarSensor", sensor |-> sensor, attr |-> attr,
              unique_id |-> VenstarSensorUniqueId(entry, sensor, attr, snapshot),
              device |-> VenstarSensorDeviceId(entry, sensor)] :
                sensor \in sensors, attr \in SENSOR_ATTRIBUTES \ {SENSOR_ID}}
       ELSE {})
    \cup
    (IF "VenstarRuntimeSensor" \in kinds
       THEN {[kind |-> "VenstarRuntimeSensor", sensor |-> sensor, attr |-> NoString,
              unique_id |-> VenstarRuntimeSensorUniqueId(entry, sensor),
              device |-> VenstarThermostatUniqueId(entry)] :
                sensor \in RuntimeKeys}
       ELSE {})

\* a setup that gives up when the first refresh failed
SetupContinuesIfRefreshed(first_refresh_ok) == first_refresh_ok

\* whether async_setup_entry goes on after the first refresh
\* (coordinator.async_refresh() does not raise when the cycle failed)
SetupContinues(first_refresh_ok) == TRUE

\* the first refresh is over: forward the entry to the platforms, return True
SetupFinish(e) ==
    /\ setup[e] = "first_refresh"
    /\ poll[e].pc = "idle"
    /\ SetupContinues(connection_state[e])
    /\ setup' = [setup EXCEPT ![e] = "ready"]
    /\ setup_result' = [setup_result EXCEPT ![e] = "True"]
    /\ platforms' = [platforms EXCEPT ![e] = PLATFORMS]
    /\ entities' = [entities EXCEPT ![e] =
                       CreatedEntities(config_entry[e], device_sensors, client[e])]
    /\ unique_ids' = [unique_ids EXCEPT ![e] =
                         @ \cup RegisteredIds(config_entry[e], entities'[e],
                                              device_sensors, client[e])]
    /\ UNCHANGED <<registered, connection_state, poll, cycle, client, wr, nwrites,
                   hubvars, executor, device_sensors, flowvars>>

\* ------------------------------------------------------------------------
\* async_update_data: one poll cycle
\* ------------------------------------------------------------------------

\* a cycle that fails only when both results are falsy
PollFailedWhenBoth(info_success, sensor_success) ==
    ~info_success /\ ~sensor_success

\* `if not info_success or not sensor_success`
PollFailed(info_success, sensor_success) ==
    ~info_success \/ ~sensor_success

\* the connection state each way out of async_update_data assigns
\* (old is the state the cycle found)
StateAfterFalsy(old) == FALSE

\* a timeout branch that leaves the state as it was
StateAfterTimeoutKept(old) == old

StateAfterTimeout(old) == FALSE

StateAfterException(old) == FALSE

\* a success path that leaves the state as it was
StateAfterSuccessKept(old) == old

StateAfterSuccess(old) == TRUE

\* one flag shared by all entries instead of one per entry
SetConnectionStateShared(e, value) ==
    [x \in Entries |-> value]

\* hass.data[DOMAIN][entry.entry_id][ENTRY_CONNECTION_STATE] = value
SetConnectionState(e, value) ==
    [connection_state EXCEPT ![e] = value]

PyBool(b) == IF b THEN "True" ELSE "False"

\* the coordinator's timer fires: update_info is submitted to the executor
PollStart(e) ==
    /\ e \in registered
    /\ setup[e] = "ready"
    /\ poll[e].pc = "idle"
    /\ poll' = [poll EXCEPT ![e] = [pc |-> "update_info", info_success |-> FALSE]]
    /\ UNCHANGED <<setup, setup_result, registered, connection_state, platforms,
                   entities, cycle, client, wr, nwrites,
                   hubvars, executor, idvars, flowvars>>

\* async_update_data is left: the state is assigned, and UpdateFailed is
\* raised to the coordinator unless raised is "none"
EndCycle(e, info, sensors, value, raised) ==
    /\ connection_state' = SetConnectionState(e, value)
    /\ cycle' = [cycle EXCEPT ![e] =
                    [completed |-> TRUE, info |-> info, sensors |-> sensors,
                     raised |-> raised, before |-> connection_state[e]]]
    /\ poll' = [poll EXCEPT ![e] = IdlePoll]

\* update_info returned inside the timeout: update_sensors is submitted
UpdateInfoReturns(e, info_success, report) ==
    /\ poll[e].pc = "update_info"
    /\ poll' = [poll EXCEPT ![e] = [pc |-> "update_sensors", info_success |-> info_success]]
    /\ client' = [client EXCEPT ![e] = ClientUpdateInfo(@, info_success, report)]
    /\ UNCHANGED <<setup, setup_result, registered, connection_state, platforms,
                   entities, cycle, wr, nwrites,
                   hubvars, executor, idvars, flowvars>>

\* update_info raised: `except Exception`
UpdateInfoRaises(e) ==
    /\ poll[e].pc = "update_info"
    /\ EndCycle(e, "raise", "not_called",
                StateAfterException(connection_state[e]), "UpdateFailed")
    /\ UNCHANGED <<setup, setup_result, registered, platforms, entities,
                   client, wr, nwrites,
                   hubvars, executor, idvars, flowvars>>

\* the timeout expired while update_info or update_sensors was awaited:
\* `except asyncio.TimeoutError`. The await is cancelled; the call itself,
\* when an executor thread had already started it (running), goes on in
\* that thread.
PollTimeout(e, running) ==
    /\ poll[e].pc \in {"update_info", "update_sensors"}
    /\ running => Len(executor[e]) < MaxAbandoned
    /\ executor' = [executor EXCEPT ![e] =
                       IF running THEN Append(@, poll[e].pc) ELSE @]
    /\ IF poll[e].pc = "update_info"
         THEN EndCycle(e, "timeout", "not_called",
                       StateAfterTimeout(connection_state[e]), "UpdateFailed")
         ELSE EndCycle(e, PyBool(poll[e].info_success), "timeout",
                       StateAfterTimeout(connection_state[e]), "UpdateFailed")
    /\ UNCHANGED <<setup, setup_result, registered, platforms, entities,
                   client, wr, nwrites, hubvars, idvars, flowvars>>

\* a refresh call whose await was cancelled by the timeout comes to its end in
\* its executor thread: a truthy result has replaced the client's data
RemoveAt(seq, i) ==
    [j \in 1..(Len(seq) - 1) |-> IF j < i THEN seq[j] ELSE seq[j + 1]]

JobEnds(e, i, success, report, reading) ==
    /\ i \in 1..Len(executor[e])
    /\ executor' = [executor EXCEPT ![e] = RemoveAt(@, i)]
    /\ client' = [client EXCEPT ![e] =
                     IF executor[e][i] = "update_info"
                       THEN ClientUpdateInfo(@, success, report)
                       ELSE ClientUpdateSensors(@, success, reading)]
    /\ UNCHANGED <<setup, setup_result, registered, connection_state, platforms,
                   entities, poll, cycle, wr, nwrites, hubvars, idvars, flowvars>>

\* update_sensors raised: `except Exception`
UpdateSensorsRaises(e) ==
    /\ poll[e].pc = "update_sensors"
    /\ EndCycle(e, PyBool(poll[e].info_success), "raise",
                StateAfterException(connection_state[e]), "UpdateFailed")
    /\ UNCHANGED <<setup, setup_result, registered, platforms, entities,
                   client, wr, nwrites,
                   hubvars, executor, idvars, flowvars>>

\* update_sensors returned inside the timeout: the results are tested and the
\* cycle ends (the UpdateFailed raised in the try block is caught by
\* `except Exception`, which assigns the state again and raises UpdateFailed)
UpdateSensorsReturns(e, sensor_success, reading) ==
    /\ poll[e].pc = "update_sensors"
    /\ client' = [client EXCEPT ![e] = ClientUpdateSensors(@, sensor_success, reading)]
    /\ IF PollFailed(poll[e].info_success, sensor_success)
         THEN EndCycle(e, PyBool(poll[e].info_success), PyBool(sensor_success),
                       StateAfterException(StateAfterFalsy(connection_state[e])),
                       "UpdateFailed")
         ELSE EndCycle(e, PyBool(poll[e].info_success), PyBool(sensor_success),
                       StateAfterSuccess(connection_state[e]), "none")
    /\ UNCHANGED <<setup, setup_result, registered, platforms, entities, wr, nwrites,
                   hubvars, executor, idvars, flowvars>>

\* ------------------------------------------------------------------------
\* Entity adapters: availability
\* ------------------------------------------------------------------------

\* VenstarSensor.state: the reading when it is a number, else None
VenstarSensorState(snapshot) ==
    IF snapshot.sensor = "number" THEN "number" ELSE NoneValue

\* VenstarRuntimeSensor.state: the local `state` is bound only when the key
\* is in the latest runtimes record
VenstarRuntimeSensorState(snapshot) ==
    IF snapshot.runtime = "absent" THEN "UnboundLocalError" ELSE snapshot.runtime

\* BinarySensorEntity.state of a VenstarAlertSensor: on or off, never None
VenstarAlertSensorState(snapshot) == "off"

VenstarThermostatAvailable(e) ==
    PyBool(connection_state[e])

\* `self.state is not None and <connection state>`
VenstarSensorAvailable(e) ==
    PyBool(VenstarSensorState(client[e]) # NoneValue /\ connection_state[e])

VenstarRuntimeSensorAvailable(e) ==
    LET state == VenstarRuntimeSensorState(client[e]) IN
    IF state = "UnboundLocalError" THEN state
    ELSE PyBool(state # NoneValue /\ connection_state[e])

VenstarAlertSensorAvailable(e) ==
    PyBool(VenstarAlertSensorState(client[e]) # NoneValue /\ connection_state[e])

\* `available` of an adapter of entry e
Available(e, adapter) ==
    IF adapter = "VenstarThermostat" THEN VenstarThermostatAvailable(e)
    ELSE IF adapter = "VenstarSensor" THEN VenstarSensorAvailable(e)
    ELSE IF adapter = "VenstarRuntimeSensor" THEN VenstarRuntimeSensorAvailable(e)
    ELSE VenstarAlertSensorAvailable(e)

\* ------------------------------------------------------------------------
\* VenstarThermostat: property reads
\* ------------------------------------------------------------------------

hvac_mode(snapshot) ==
    IF snapshot.mode = VENSTAR_MODE_HEAT THEN HVAC_MODE_HEAT
    ELSE IF snapshot.mode = VENSTAR_MODE_COOL THEN HVAC_MODE_COOL
    ELSE IF snapshot.mode = VENSTAR_MODE_AUTO THEN HVAC_MODE_AUTO
    ELSE HVAC_MODE_OFF

fan_mode(snapshot) ==
    IF snapshot.fan = VENSTAR_FAN_ON THEN FAN_ON ELSE FAN_AUTO

\* the schedule flag tested before the away flag
preset_mode_schedule_first(snapshot) ==
    IF snapshot.schedule = VENSTAR_SCHEDULE_DISABLED THEN HOLD_MODE_TEMPERATURE
    ELSE IF snapshot.away = VENSTAR_AWAY_AWAY THEN PRESET_AWAY
    ELSE PRESET_NONE

preset_mode(snapshot) ==
    IF snapshot.away = VENSTAR_AWAY_AWAY THEN PRESET_AWAY
    ELSE IF snapshot.schedule = VENSTAR_SCHEDULE_DISABLED THEN HOLD_MODE_TEMPERATURE
    ELSE PRESET_NONE

\* ------------------------------------------------------------------------
\* VenstarThermostat: write paths
\* ------------------------------------------------------------------------

\* the commands the hub can send to a thermostat entity
HvacModeInputs ==
    { [NoWrite EXCEPT !.op = "set_hvac_mode", !.hvac_mode = m] :
        m \in VALID_THERMOSTAT_MODES \cup {"dry"} }

TemperatureInputs ==
    { [NoWrite EXCEPT !.op = "set_temperature", !.hvac_mode = m,
                      !.temperature = t[1], !.target_temp_low = t[2],
                      !.target_temp_high = t[3]] :
        m \in VALID_THERMOSTAT_MODES \cup {NoneValue, "dry"},
        t \in {<<v, 0, 0>> : v \in Values} \cup {<<0, 1, MaxValue>>} }

FanModeInputs ==
    { [NoWrite EXCEPT !.op = "set_fan_mode", !.fan_mode = f] :
        f \in VALID_FAN_STATES \cup {"low"} }

HumidityInputs ==
    { [NoWrite EXCEPT !.op = "set_humidity", !.humidity = h] : h \in Values }

PresetInputs ==
    { [NoWrite EXCEPT !.op = "set_preset_mode", !.preset_mode = p] :
        p \in {PRESET_AWAY, HOLD_MODE_TEMPERATURE, PRESET_NONE, "eco"} }

WriteInputs ==
    HvacModeInputs \cup TemperatureInputs \cup FanModeInputs
      \cup HumidityInputs \cup PresetInputs

Last(seq) == seq[Len(seq)]

\* the write path calls a client mutator and waits for its result
Call(w, fn, args) ==
    [w EXCEPT !.pc = "call", !.calls = Append(@, [fn |-> fn, args |-> args])]

\* the write path returns, after logging msgs with _LOGGER.error
Finish(w, msgs) ==
    [w EXCEPT !.pc = "done", !.log = @ \o msgs]

\* the test of the result inverted
FailureLogInverted(success, msg) ==
    IF success THEN <<msg>> ELSE << >>

\* `if not success: _LOGGER.error(msg)`
FailureLog(success, msg) ==
    IF ~success THEN <<msg>> ELSE << >>

\* the heat and cool branches exchanged
OperationModeForSwapped(operation_mode) ==
    IF operation_mode = HVAC_MODE_HEAT THEN VENSTAR_MODE_COOL
    ELSE IF operation_mode = HVAC_MODE_COOL THEN VENSTAR_MODE_HEAT
    ELSE IF operation_mode = HVAC_MODE_AUTO THEN VENSTAR_MODE_AUTO
    ELSE VENSTAR_MODE_OFF

\* the vendor mode _set_operation_mode sends for a hub mode
OperationModeFor(operation_mode) ==
    IF operation_mode = HVAC_MODE_HEAT THEN VENSTAR_MODE_HEAT
    ELSE IF operation_mode = HVAC_MODE_COOL THEN VENSTAR_MODE_COOL
    ELSE IF operation_mode = HVAC_MODE_AUTO THEN VENSTAR_MODE_AUTO
    ELSE VENSTAR_MODE_OFF

\* the vendor fan state set_fan_mode sends
FanFor(fan) ==
    IF fan = STATE_ON THEN VENSTAR_FAN_ON ELSE VENSTAR_FAN_AUTO

\* a mode change sent whenever a mode is given
NeedsModeChangeAlways(operation_mode, snapshot) ==
    operation_mode # NoneValue

\* set_temperature: `if operation_mode and MODE_MAP.get(operation_mode) != mode`
NeedsModeChange(operation_mode, snapshot) ==
    /\ operation_mode # NoneValue
    /\ ModeMapGet(operation_mode, NoneValue) # snapshot.mode

\* the setpoints of the heat and cool branches in the wrong order
SetTemperatureSetpointsSwapped(w, snapshot) ==
    LET effective == ModeMapGet(w.hvac_mode, snapshot.mode)
        v == [w EXCEPT !.effective_mode = effective]
    IN
    IF effective = VENSTAR_MODE_HEAT
      THEN Call(v, "set_setpoints", <<snapshot.cooltemp, w.temperature>>)
    ELSE IF effective = VENSTAR_MODE_COOL
      THEN Call(v, "set_setpoints", <<w.temperature, snapshot.heattemp>>)
    ELSE IF effective = VENSTAR_MODE_AUTO
      THEN Call(v, "set_setpoints", <<w.target_temp_low, w.target_temp_high>>)
    ELSE Finish(v, <<"The thermostat is currently not in a mode that supports target temperature",
                     "Failed to change the temperature">>)

\* set_temperature from `if set_temp:` on, set_temp being true
SetTemperatureSetpoints(w, snapshot) ==
    LET effective == ModeMapGet(w.hvac_mode, snapshot.mode)
        v == [w EXCEPT !.effective_mode = effective]
    IN
    IF effective = VENSTAR_MODE_HEAT
      THEN Call(v, "set_setpoints", <<w.temperature, snapshot.cooltemp>>)
    ELSE IF effective = VENSTAR_MODE_COOL
      THEN Call(v, "set_setpoints", <<snapshot.heattemp, w.temperature>>)
    ELSE IF effective = VENSTAR_MODE_AUTO
      THEN Call(v, "set_setpoints", <<w.target_temp_low, w.target_temp_high>>)
    ELSE Finish(v, <<"The thermostat is currently not in a mode that supports target temperature",
                     "Failed to change the temperature">>)

\* set_schedule called whatever set_away returned
PresetAfterAwayAlways(w, success) ==
    IF w.preset_mode = PRESET_AWAY
      THEN Finish(w, FailureLog(success, "Failed to change the schedule/hold state"))
    ELSE Call(w, "set_schedule",
              <<IF w.preset_mode = HOLD_MODE_TEMPERATURE
                  THEN VENSTAR_SCHEDULE_DISABLED ELSE VENSTAR_SCHEDULE_ENABLED>>)

\* set_preset_mode: the second mutator of the hold and none presets
\* (`success = success and self._client.set_schedule(...)`)
PresetAfterAway(w, success) ==
    IF w.preset_mode = PRESET_AWAY
      THEN Finish(w, FailureLog(success, "Failed to change the schedule/hold state"))
    ELSE IF success
      THEN Call(w, "set_schedule",
                <<IF w.preset_mode = HOLD_MODE_TEMPERATURE
                    THEN VENSTAR_SCHEDULE_DISABLED ELSE VENSTAR_SCHEDULE_ENABLED>>)
    ELSE Finish(w, FailureLog(success, "Failed to change the schedule/hold state"))

\* a write path from its entry to its first client call (or to its return)
Begin(w, snapshot) ==
    IF w.op = "set_hvac_mode"
      THEN Call(w, "set_mode", <<OperationModeFor(w.hvac_mode)>>)
    ELSE IF w.op = "set_temperature"
      THEN IF NeedsModeChange(w.hvac_mode, snapshot)
             THEN Call(w, "set_mode", <<OperationModeFor(w.hvac_mode)>>)
             ELSE SetTemperatureSetpoints(w, snapshot)
    ELSE IF w.op = "set_fan_mode"
      THEN Call(w, "set_fan", <<FanFor(w.fan_mode)>>)
    ELSE IF w.op = "set_humidity"
      THEN Call(w, "set_hum_setpoint", <<w.humidity>>)
    ELSE IF w.preset_mode = PRESET_AWAY
      THEN Call(w, "set_away", <<VENSTAR_AWAY_AWAY>>)
    ELSE IF w.preset_mode \in {HOLD_MODE_TEMPERATURE, PRESET_NONE}
      THEN Call(w, "set_away", <<VENSTAR_AWAY_HOME>>)
    ELSE Finish(w, <<"Unknown hold mode", "Failed to change the schedule/hold state">>)

\* a write path from the return of a client call to its next call or return
Continue(w, success, snapshot) ==
    LET fn == Last(w.calls).fn IN
    IF fn = "set_mode"
      THEN IF w.op = "set_temperature" /\ success
             THEN SetTemperatureSetpoints(w, snapshot)
             ELSE Finish(w, FailureLog(success, "Failed to change the operation mode"))
    ELSE IF fn = "set_setpoints"
      THEN Finish(w, FailureLog(success, "Failed to change the temperature"))
    ELSE IF fn = "set_fan"
      THEN Finish(w, FailureLog(success, "Failed to change the fan mode"))
    ELSE IF fn = "set_hum_setpoint"
      THEN Finish(w, FailureLog(success, "Failed to change the target humidity level"))
    ELSE IF fn = "set_away"
      THEN PresetAfterAway(w, success)
    ELSE Finish(w, FailureLog(success, "Failed to change the schedule/hold state"))

\* set_fan_mode storing the new fan state itself before the client call
AdapterAssignsOptimistic(snapshot, w) ==
    IF w.op = "set_fan_mode"
      THEN [snapshot EXCEPT !.fan = FanFor(w.fan_mode)]
      ELSE snapshot

\* what the write path itself assigns to the client's attributes at its
\* entry: nothing
AdapterAssigns(snapshot, w) == snapshot

\* the client's mutators: the attribute a mutator stores when it does
ClientMutator(snapshot, call, reflected) ==
    IF ~reflected THEN snapshot
    ELSE IF call.fn = "set_mode" THEN [snapshot EXCEPT !.mode = call.args[1]]
    ELSE IF call.fn = "set_setpoints"
      THEN [snapshot EXCEPT !.heattemp = call.args[1], !.cooltemp = call.args[2]]
    ELSE IF call.fn = "set_fan" THEN [snapshot EXCEPT !.fan = call.args[1]]
    ELSE IF call.fn = "set_hum_setpoint"
      THEN [snapshot EXCEPT !.hum_setpoint = call.args[1]]
    ELSE IF call.fn = "set_away" THEN [snapshot EXCEPT !.away = call.args[1]]
    ELSE [snapshot EXCEPT !.schedule = call.args[1]]

\* the hub calls a write method of the thermostat entity of e
WriteStart(e, input) ==
    /\ "VenstarThermostat" \in entities[e]
    /\ wr.pc \in {"idle", "done"}
    /\ nwrites < MaxWrites
    /\ nwrites' = nwrites + 1
    /\ client' = [client EXCEPT ![e] = AdapterAssigns(@, input)]
    /\ wr' = Begin([input EXCEPT !.entry = e], client'[e])
    /\ UNCHANGED <<setup, setup_result, registered, connection_state, platforms,
                   entities, poll, cycle,
                   hubvars, executor, idvars, flowvars>>

\* the client mutator the write path waits for returns
MutatorReturns(success, reflected) ==
    /\ wr.pc = "call"
    /\ client' = [client EXCEPT ![wr.entry] = ClientMutator(@, Last(wr.calls), reflected)]
    /\ wr' = Continue([wr EXCEPT !.results = Append(@, success)], success,
                      client'[wr.entry])
    /\ UNCHANGED <<setup, setup_result, registered, connection_state, platforms,
                   entities, poll, cycle, nwrites,
                   hubvars, executor, idvars, flowvars>>

\* ------------------------------------------------------------------------
\* Config entries, the options flow and async_unload_entry
\* ------------------------------------------------------------------------

\* seconds a user or a YAML file gives: the defaults, and more than the
\* default interval
SomeSeconds == {DEFAULT_CONF_TIMEOUT, DEFAULT_CONF_SCAN_INTERVAL, MaxSeconds}

\* The config flow creates the entry with data=user_input: the user form has
\* no timeout field; async_step_import passes the YAML platform configuration
\* on, whose timeout (PLATFORM_SCHEMA: an int >= 1, DEFAULT_CONF_TIMEOUT when
\* left out) stays in the data.
FlowCreatesEntry(e, source, unique_id, timeout) ==
    /\ config_entry[e].source = "none"
    /\ config_entry' = [config_entry EXCEPT ![e] =
          [UserEntry(e, unique_id) EXCEPT
              !.source = source,
              !.data_timeout = IF source = "import" THEN timeout ELSE 0]]
    /\ UNCHANGED <<setup, setup_result, registered, connection_state, platforms,
                   entities, poll, cycle, client, wr, nwrites, listeners,
                   reload_requested, options_flow, unload_result, applied,
                   executor, idvars, flowvars>>

\* user_input of async_step_init: None (the form is opened), or what the
\* form's schema lets through
NoInput == NoOptions

OptionInputs ==
    { [scan_interval |-> i, timeout |-> t, sensors |-> "True"] :
        i \in SomeSeconds, t \in SomeSeconds }
      \cup {[scan_interval |-> DEFAULT_CONF_SCAN_INTERVAL,
              timeout |-> DEFAULT_CONF_TIMEOUT, sensors |-> "False"]}

\* OptionsFlowHandler.get_option for scan_interval and timeout
get_option(entry, id, user_input, default) ==
    Get(user_input[id],
        Get(entry.options[id],
            Get(IF id = "timeout" THEN entry.data_timeout ELSE 0, default)))

\* the comparison the other way round
TimeoutHighReversed(scan_interval, timeout) == scan_interval > timeout

\* `if get_option(CONF_SCAN_INTERVAL) < get_option(CONF_TIMEOUT)`
TimeoutHigh(scan_interval, timeout) == scan_interval < timeout

\* OptionsFlowHandler.async_step_init; on create_entry the hub stores the data
\* as the entry's options and, when they changed, calls the update listeners
OptionsStepInit(e, user_input) ==
    LET entry == config_entry[e]
        errors ==
          IF TimeoutHigh(
               get_option(entry, "scan_interval", user_input, DEFAULT_CONF_SCAN_INTERVAL),
               get_option(entry, "timeout", user_input, DEFAULT_CONF_TIMEOUT))
            THEN "timeout_high" ELSE NoneValue
        create == user_input # NoInput /\ errors = NoneValue
    IN
    /\ entry.source # "none"
    /\ options_flow' = [options_flow EXCEPT ![e] =
          [type |-> IF create THEN "create_entry" ELSE "form",
           errors |-> errors, data |-> user_input]]
    /\ config_entry' = [config_entry EXCEPT ![e].options =
                           IF create THEN user_input ELSE @]
    /\ reload_requested' =
          IF create /\ user_input # entry.options /\ e \in listeners
            THEN reload_requested \cup {e} ELSE reload_requested
    /\ UNCHANGED <<setup, setup_result, registered, connection_state, platforms,
                   entities, poll, cycle, client, wr, nwrites, listeners,
                   unload_result, applied, executor, idvars, flowvars>>

\* the platform an adapter kind belongs to
PlatformOf(adapter) ==
    IF adapter = "VenstarThermostat" THEN "climate"
    ELSE IF adapter = "VenstarAlertSensor" THEN "binary_sensor"
    ELSE "sensor"

\* one unloaded platform is enough
UnloadOkAny(results) == \E component \in PLATFORMS : results[component]

\* `unload_ok = all(await asyncio.gather(...))`
UnloadOk(results) == \A component \in PLATFORMS : results[component]

\* async_unload_entry, between two poll cycles; results: what
\* async_forward_entry_unload returned for each platform. After True the hub
\* holds the entry as not loaded and can set it up again (a reload does).
UnloadEntry(e, results) ==
    LET unload_ok == UnloadOk(results) IN
    /\ setup[e] = "ready"
    /\ poll[e].pc = "idle"
    /\ wr.pc # "call"
    /\ listeners' = listeners \ {e}
    /\ registered' = IF unload_ok THEN registered \ {e} ELSE registered
    /\ connection_state' = IF unload_ok THEN SetConnectionState(e, FALSE)
                           ELSE connection_state
    /\ unload_result' = [unload_result EXCEPT ![e] =
          [returned |-> PyBool(unload_ok),
           unloaded |-> {component \in PLATFORMS : results[component]}]]
    /\ setup' = [setup EXCEPT ![e] = IF unload_ok THEN "unset" ELSE "failed_unload"]
    /\ platforms' = [platforms EXCEPT ![e] =
                        {component \in @ : ~results[component]}]
    /\ entities' = [entities EXCEPT ![e] =
                       {adapter \in @ : ~results[PlatformOf(adapter)]}]
    /\ UNCHANGED <<setup_result, poll, cycle, client, wr, nwrites, config_entry,
                   reload_requested, options_flow, applied, executor, idvars, flowvars>>

\* ------------------------------------------------------------------------
\* Specifications
\* ------------------------------------------------------------------------

\* one command for each write method of the thermostat entity
SomeWriteInputs ==
    { [NoWrite EXCEPT !.op = "set_hvac_mode", !.hvac_mode = HVAC_MODE_HEAT],
      [NoWrite EXCEPT !.op = "set_temperature", !.temperature = 1],
      [NoWrite EXCEPT !.op = "set_fan_mode", !.fan_mode = STATE_ON],
      [NoWrite EXCEPT !.op = "set_humidity", !.humidity = 1],
      [NoWrite EXCEPT !.op = "set_preset_mode", !.preset_mode = HOLD_MODE_TEMPERATURE] }

\* ------------------------------------------------------------------------
\* The config flow: async_step_user, async_step_ssdp, async_step_import
\* ------------------------------------------------------------------------

\* hosts, ports and MAC addresses of thermostats on the network
Hosts == {<<"h", "1">>, <<"h", "2">>}

Ports == {NoString, <<"8", "0">>}

Macs == {<<"a", "a">>, <<"b", "b">>}

\* `str(urlparse(location).port) or ""`: the port of the location, or the
\* text of None when the location names no port
SsdpPorts == {<<"8", "0">>, <<"N", "o", "n", "e">>}

\* what get_mac_address answers for each host at the time of a step
\* (NoString: no address found)
MacTables == [Hosts -> Macs \cup {NoString}]

\* what validate_input does: returns, or raises CannotConnect,
\* asyncio.TimeoutError or another exception
ValidateOutcomes == {"ok", "cannot_connect", "connect_timeout", "unknown"}

\* the form of async_step_user: host and port (the form has no MAC field)
FormInputs == [host : Hosts, port : Ports, mac : {NoString}]

\* what async_step_ssdp reads from the discovery: hostname and port of the
\* location, MAC address from the USN
SsdpInputs == [host : Hosts, port : SsdpPorts, mac : Macs]

\* a platform entry of configuration.yaml (PLATFORM_SCHEMA has no port)
ImportInputs == [host : Hosts, port : {NoString}, mac : {NoString}]

\* filter(None, parts)
FilterNone(parts) == SelectSeq(parts, LAMBDA part : part # NoString)

\* sep.join(parts)
RECURSIVE Join(_, _)
Join(sep, parts) ==
    IF parts = << >> THEN << >>
    ELSE IF Len(parts) = 1 THEN parts[1]
    ELSE parts[1] \o sep \o Join(sep, Tail(parts))

\* async_get_mac
async_get_mac(table, host) == table[host]

\* async_construct_unique_id (the host is never None here)
async_construct_unique_id(table, host, port, mac) ==
    LET found == IF mac = NoString THEN async_get_mac(table, host) ELSE mac IN
    Join(<<"-">>,
         FilterNone(<<IF found # NoString THEN found ELSE host, port>>))

\* _abort_if_unique_id_configured
UniqueIdConfigured(unique_id) ==
    \E created \in flow_entries : created.unique_id = unique_id

\* the body of async_step_user for a submitted user_input, on the flow
\* object as the calling step left it
StepUser(this, user_input, outcome, table) ==
    IF outcome # "ok"
      THEN /\ flow' = [this EXCEPT !.pc = "form", !.errors = outcome]
           /\ UNCHANGED flow_entries
      ELSE LET data == [user_input EXCEPT !.mac =
                           IF @ = NoString
                             THEN async_get_mac(table, user_input.host) ELSE @]
               unique_id ==
                   IF this.unique_id = NoString
                     THEN async_construct_unique_id(table, data.host, data.port,
                                                    data.mac)
                     ELSE this.unique_id
           IN IF UniqueIdConfigured(unique_id)
                THEN /\ flow' = [this EXCEPT !.pc = "aborted",
                                             !.unique_id = unique_id,
                                             !.errors = NoneValue]
                     /\ UNCHANGED flow_entries
                ELSE /\ flow' = [this EXCEPT !.pc = "created",
                                             !.unique_id = unique_id,
                                             !.errors = NoneValue]
                     /\ flow_entries' = flow_entries
                           \cup {[unique_id |-> unique_id, source |-> this.source,
                                  data |-> data]}

\* everything but the config flow
hubstate == <<setup, setup_result, registered, connection_state, platforms,
              entities, poll, cycle, client, wr, nwrites, hubvars, executor,
              idvars>>

\* async_step_user(None): the user opens the form
FlowShowForm ==
    /\ flow.pc = "init"
    /\ flow' = [flow EXCEPT !.pc = "form", !.source = "user"]
    /\ UNCHANGED <<flow_entries, hubstate>>

\* async_step_user(user_input): the user submits the form
FlowStepUser(user_input, outcome, table) ==
    /\ flow.pc = "form"
    /\ StepUser(flow, user_input, outcome, table)
    /\ UNCHANGED hubstate

\* async_step_ssdp
FlowStepSsdp(ssdp_input, outcome, table) ==
    /\ flow.pc = "init"
    /\ LET unique_id ==
               IF flow.unique_id = NoString
                 THEN async_construct_unique_id(table, ssdp_input.host,
                                                ssdp_input.port, ssdp_input.mac)
                 ELSE flow.unique_id
           this == [flow EXCEPT !.source = "ssdp", !.unique_id = unique_id]
       IN IF UniqueIdConfigured(unique_id)
            THEN /\ flow' = [this EXCEPT !.pc = "aborted"]
                 /\ UNCHANGED flow_entries
            ELSE StepUser(this, ssdp_input, outcome, table)
    /\ UNCHANGED hubstate

\* async_step_import
FlowStepImport(config_input, outcome, table) ==
    /\ flow.pc = "init"
    /\ StepUser([flow EXCEPT !.source = "import"], config_input, outcome, table)
    /\ UNCHANGED hubstate

\* the flow is over (entry created or aborted): the hub starts another one
FlowStarts ==
    /\ flow.pc \in {"created", "aborted"}
    /\ flow.n < MaxFlows
    /\ flow' = [NewConfigFlow EXCEPT !.n = flow.n + 1]
    /\ UNCHANGED <<flow_entries, hubstate>>

SomeReport ==
    CHOOSE report \in DeviceReports : report.mode = VENSTAR_MODE_HEAT

\* The poll cycle of one entry: every outcome of every refresh call, every
\* device report, and some commands.
Next ==
    \/ \E success \in BOOLEAN, reflected \in BOOLEAN : MutatorReturns(success, reflected)
    \/ \E e \in {"entry1"} :
        \/ \E input \in SomeWriteInputs : WriteStart(e, input)
        \/ SetupLoginFails(e)
        \/ SetupRegister(e)
        \/ SetupFinish(e)
        \/ PollStart(e)
        \/ \E r \in BOOLEAN, report \in DeviceReports : UpdateInfoReturns(e, r, report)
        \/ UpdateInfoRaises(e)
        \/ PollTimeout(e, FALSE)
        \/ UpdateSensorsRaises(e)
        \/ \E r \in BOOLEAN, reading \in SensorReports : UpdateSensorsReturns(e, r, reading)

Spec == Init /\ [][Next]_vars

\* Two entries set up, polled and commanded side by side.
SharedNext ==
    \/ \E e \in Entries :
        \/ SetupRegister(e)
        \/ SetupFinish(e)
        \/ PollStart(e)
        \/ UpdateInfoReturns(e, TRUE, SomeReport)
        \/ PollTimeout(e, FALSE)
        \/ \E r \in BOOLEAN : UpdateSensorsReturns(e, r, "number")
        \/ \E input \in SomeWriteInputs : WriteStart(e, input)
    \/ \E success \in BOOLEAN, reflected \in BOOLEAN : MutatorReturns(success, reflected)

SharedSpec == Init /\ [][SharedNext]_vars

\* The thermostat entity of one entry: every command, every result of the
\* client's mutators, while successful polls replace the snapshot.
ThermostatNext ==
    \/ \E e \in {"entry1"} :
        \/ SetupRegister(e)
        \/ SetupFinish(e)
        \/ PollStart(e)
        \/ \E report \in DeviceReports : UpdateInfoReturns(e, TRUE, report)
        \/ UpdateSensorsReturns(e, TRUE, "number")
        \/ \E input \in WriteInputs : WriteStart(e, input)
    \/ \E success \in BOOLEAN, reflected \in BOOLEAN : MutatorReturns(success, reflected)

ThermostatSpec == Init /\ [][ThermostatNext]_vars

\* The poll cycle of one entry that is never commanded, under fairness: the
\* coordinator keeps polling, a refresh call is eventually over (it returns,
\* raises or is timed out), and a device that is asked again and again
\* eventually answers both calls of a cycle.
PollStep(e) ==
    \/ PollStart(e)
    \/ \E r \in BOOLEAN, report \in DeviceReports : UpdateInfoReturns(e, r, report)
    \/ UpdateInfoRaises(e)
    \/ PollTimeout(e, FALSE)
    \/ UpdateSensorsRaises(e)
    \/ \E r \in BOOLEAN, reading \in SensorReports : UpdateSensorsReturns(e, r, reading)

InfoAnswered(e) ==
    \E report \in DeviceReports : UpdateInfoReturns(e, TRUE, report)

SensorsAnswered(e) ==
    /\ poll[e].info_success
    /\ \E reading \in SensorReports : UpdateSensorsReturns(e, TRUE, reading)

LiveNext ==
    \E e \in {"entry1"} :
        \/ SetupLoginFails(e)
        \/ SetupRegister(e)
        \/ SetupFinish(e)
        \/ PollStep(e)

LiveSpec ==
    /\ Init
    /\ [][LiveNext]_vars
    /\ WF_vars(SetupFinish("entry1"))
    /\ WF_vars(PollStep("entry1"))
    /\ SF_vars(InfoAnswered("entry1"))
    /\ SF_vars(SensorsAnswered("entry1"))

\* The identifiers of the adapters of one entry, for every set of sensor
\* names the device reports and an entry with or without a unique id, while
\* the entry is polled (success, timeout, falsy result) and commanded.
IdentityInit ==
    \E unique_id \in FlowUniqueIds, sensors \in SUBSET SensorNames :
        InitWith([e \in Entries |-> UserEntry(e, unique_id)], sensors)

IdentityNext ==
    \/ \E e \in {"entry1"} :
        \/ SetupRegister(e)
        \/ SetupFinish(e)
        \/ PollStart(e)
        \/ UpdateInfoReturns(e, TRUE, SomeReport)
        \/ PollTimeout(e, FALSE)
        \/ \E r \in BOOLEAN, reading \in SensorReports : UpdateSensorsReturns(e, r, reading)
        \/ \E input \in SomeWriteInputs : WriteStart(e, input)
    \/ \E success \in BOOLEAN, reflected \in BOOLEAN : MutatorReturns(success, reflected)

IdentitySpec == IdentityInit /\ [][IdentityNext]_vars

\* One entry from its creation by the config flow (user form or YAML import)
\* through setup, options forms, unloads and reloads; the first refresh of a
\* setup succeeds.
OptionsInit ==
    InitWith([e \in Entries |-> NoEntry(e)], {<<"R", " ", "1">>})

OptionsNext ==
    \E e \in {"entry1"} :
        \/ FlowCreatesEntry(e, "user", <<"m", "a", "c">>, 0)
        \/ \E timeout \in {DEFAULT_CONF_TIMEOUT, MaxSeconds} :
              FlowCreatesEntry(e, "import", <<"m", "a", "c">>, timeout)
        \/ \E user_input \in {NoInput} \cup OptionInputs : OptionsStepInit(e, user_input)
        \/ SetupLoginFails(e)
        \/ SetupRegister(e)
        \/ UpdateInfoReturns(e, TRUE, SomeReport)
        \/ UpdateSensorsReturns(e, TRUE, "number")
        \/ SetupFinish(e)
        \/ \E results \in [PLATFORMS -> BOOLEAN] : UnloadEntry(e, results)

OptionsSpec == OptionsInit /\ [][OptionsNext]_vars

\* The refresh calls of one entry and the executor threads they run in: a
\* call that is timed out either had not started (it is cancelled) or goes on
\* in its thread while the coordinator schedules the next cycle.
ExecutorNext ==
    \E e \in {"entry1"} :
        \/ SetupRegister(e)
        \/ SetupFinish(e)
        \/ PollStart(e)
        \/ \E r \in BOOLEAN : UpdateInfoReturns(e, r, SomeReport)
        \/ \E running \in BOOLEAN : PollTimeout(e, running)
        \/ \E r \in BOOLEAN, reading \in SensorReports : UpdateSensorsReturns(e, r, reading)
        \/ \E i \in 1..MaxAbandoned, r \in BOOLEAN, reading \in SensorReports :
              JobEnds(e, i, r, SomeReport, reading)

ExecutorSpec == Init /\ [][ExecutorNext]_vars

\* The config flows of the hub, one after the other: from the form, from an
\* SSDP discovery or from configuration.yaml, with every outcome of the
\* connection test and of the MAC lookup.
FlowNext ==
    \/ FlowShowForm
    \/ \E user_input \in FormInputs, outcome \in ValidateOutcomes, table \in MacTables :
          FlowStepUser(user_input, outcome, table)
    \/ \E ssdp_input \in SsdpInputs, outcome \in ValidateOutcomes, table \in MacTables :
          FlowStepSsdp(ssdp_input, outcome, table)
    \/ \E config_input \in ImportInputs, outcome \in ValidateOutcomes, table \in MacTables :
          FlowStepImport(config_input, outcome, table)
    \/ FlowStarts

FlowSpec == Init /\ [][FlowNext]_vars

\* ------------------------------------------------------------------------
\* Properties
\* ------------------------------------------------------------------------

FullySuccessful(c) ==
    c.completed /\ c.info = "True" /\ c.sensors = "True"

\* C1: the connection state of an entry is true exactly when the most
\* recently completed poll cycle of the entry was fully successful (both
\* refresh calls returned a truthy result, no timeout, no exception); it is
\* false before the first cycle has completed and for an entry not set up.
C1_StateIsLastCycleOutcome ==
    \A e \in Entries :
        connection_state[e] = (e \in registered /\ FullySuccessful(cycle[e]))

C1_Witness ==
    \E e \in Entries :
        /\ connection_state[e]
        /\ cycle[e].before = FALSE
        /\ FullySuccessful(cycle[e])

\* a step that ends a poll cycle of e
CycleEnds(e) ==
    poll[e].pc # "idle" /\ poll'[e].pc = "idle"

\* C2: every step that ends a poll cycle by a timeout, an exception or a
\* falsy result leaves the connection state false and raises UpdateFailed,
\* whatever the state was before; a step that ends a successful cycle leaves
\* it true and raises nothing.
C2_CycleEndSetsState ==
    [][\A e \in Entries :
          CycleEnds(e) =>
            LET c == cycle'[e] IN
            /\ c.completed
            /\ IF c.info = "True" /\ c.sensors = "True"
                 THEN connection_state'[e] /\ c.raised = "none"
                 ELSE /\ "timeout" \in {c.info, c.sensors}
                         \/ "raise" \in {c.info, c.sensors}
                         \/ "False" \in {c.info, c.sensors}
                      /\ ~connection_state'[e]
                      /\ c.raised = "UpdateFailed"]_vars

C2_Witness ==
    \E e \in Entries :
        /\ cycle[e].completed
        /\ cycle[e].before
        /\ cycle[e].info = "timeout"
        /\ cycle[e].raised = "UpdateFailed"
        /\ ~connection_state[e]

\* C3 (as claimed): whenever the connection state of an entry is false,
\* `available` of each of its adapters is False.
C3_UnavailableWhenDisconnected ==
    \A e \in registered :
        ~connection_state[e] =>
            /\ \A adapter \in entities[e] : Available(e, adapter) = "False"
            /\ VenstarAlertSensorAvailable(e) = "False"

\* C4: an entry that is set up and unavailable becomes available again, with
\* nothing but further poll cycles, when the device answers again.
C4_AvailabilityReturns ==
    \A e \in {"entry1"} :
        (e \in registered /\ ~connection_state[e]) ~> connection_state[e]

C4_Witness ==
    \E e \in Entries :
        /\ connection_state[e]
        /\ cycle[e].before = FALSE
        /\ setup[e] = "ready"
        /\ FullySuccessful(cycle[e])

\* C5: the connection state of an entry changes only in a step that ends a
\* poll cycle of that entry (its setup starts it at false): not in a step of
\* an adapter write path, and not in a step of another entry.
C5_OnlyOwnCycleChangesState ==
    [][\A e \in Entries :
          connection_state'[e] # connection_state[e] =>
             /\ CycleEnds(e)
             /\ wr' = wr
             /\ \A other \in Entries \ {e} :
                   /\ poll'[other] = poll[other]
                   /\ connection_state'[other] = connection_state[other]]_vars

C5_Witness ==
    /\ wr.pc = "done"
    /\ wr.entry = "entry1"
    /\ wr.results = <<FALSE>>
    /\ connection_state["entry1"]
    /\ cycle["entry2"].completed
    /\ ~connection_state["entry2"]

\* C6: while the first refresh of async_setup_entry runs the entry is
\* registered with connection state false; when that refresh is over the
\* setup can go on whatever its outcome, and a finished setup has forwarded
\* the entry to the platforms and returned True; after a failed first refresh
\* the state is false and no adapter of the entry is available, and the state
\* turns true only in a step that ends a successful poll cycle.
C6_State ==
    \A e \in Entries :
        /\ setup[e] = "first_refresh" /\ poll[e].pc # "idle" =>
              e \in registered /\ ~connection_state[e]
        /\ setup[e] = "first_refresh" /\ poll[e].pc = "idle" =>
              ENABLED SetupFinish(e)
        /\ setup[e] = "ready" =>
              setup_result[e] = "True" /\ platforms[e] = PLATFORMS
        /\ setup[e] # "unset" /\ cycle[e].completed /\ ~FullySuccessful(cycle[e]) =>
              /\ ~connection_state[e]
              /\ VenstarThermostatAvailable(e) = "False"
              /\ \A adapter \in entities[e] : Available(e, adapter) # "True"
              /\ VenstarAlertSensorAvailable(e) # "True"

C6_SetupSurvivesFailedRefresh ==
    /\ []C6_State
    /\ [][\A e \in Entries :
            ~connection_state[e] /\ connection_state'[e] =>
                CycleEnds(e) /\ FullySuccessful(cycle'[e])]_vars

C6_Witness ==
    \E e \in Entries :
        /\ setup[e] = "ready"
        /\ setup_result[e] = "True"
        /\ platforms[e] = PLATFORMS
        /\ cycle[e].completed
        /\ cycle[e].info = "timeout"
        /\ ~connection_state[e]

\* the client mutators a finished or running write path has called
Called(w) == { w.calls[i].fn : i \in 1 .. Len(w.calls) }

\* the result of the call of fn in w (a write path calls a mutator at most once)
Returned(w, fn, result) ==
    \E i \in 1 .. Len(w.results) : w.calls[i].fn = fn /\ w.results[i] = result

\* C7 (as claimed): every finished write path has called its mutator:
\* set_hvac_mode set_mode, set_temperature set_setpoints, set_fan_mode
\* set_fan, set_humidity set_hum_setpoint, set_preset_mode set_away, and
\* set_schedule too for the hold and none presets.
C7_EveryWriteCallsItsMutator ==
    wr.pc = "done" =>
        /\ wr.op = "set_hvac_mode" => "set_mode" \in Called(wr)
        /\ wr.op = "set_temperature" => "set_setpoints" \in Called(wr)
        /\ wr.op = "set_fan_mode" => "set_fan" \in Called(wr)
        /\ wr.op = "set_humidity" => "set_hum_setpoint" \in Called(wr)
        /\ wr.op = "set_preset_mode" => "set_away" \in Called(wr)
        /\ wr.op = "set_preset_mode"
             /\ wr.preset_mode \in {HOLD_MODE_TEMPERATURE, PRESET_NONE} =>
                "set_schedule" \in Called(wr)

\* C7 (amended): set_hvac_mode, set_fan_mode and set_humidity always call
\* set_mode, set_fan and set_hum_setpoint; set_temperature calls set_setpoints
\* exactly when no mode change it asked for failed and the effective mode is
\* heat, cool or auto; set_preset_mode calls set_away exactly for the presets
\* away, temperature and none, and set_schedule exactly when the preset is
\* temperature or none and set_away returned success.
C7_WritesForwardCommands ==
    wr.pc = "done" =>
        /\ wr.op = "set_hvac_mode" =>
              wr.calls = <<[fn |-> "set_mode", args |-> <<OperationModeFor(wr.hvac_mode)>>]>>
        /\ wr.op = "set_fan_mode" =>
              wr.calls = <<[fn |-> "set_fan", args |-> <<FanFor(wr.fan_mode)>>]>>
        /\ wr.op = "set_humidity" =>
              wr.calls = <<[fn |-> "set_hum_setpoint", args |-> <<wr.humidity>>]>>
        /\ wr.op = "set_temperature" =>
              ("set_setpoints" \in Called(wr)
                 <=> /\ ~Returned(wr, "set_mode", FALSE)
                     /\ wr.effective_mode \in
                          {VENSTAR_MODE_HEAT, VENSTAR_MODE_COOL, VENSTAR_MODE_AUTO})
        /\ wr.op = "set_preset_mode" =>
              /\ "set_away" \in Called(wr)
                   <=> wr.preset_mode \in {PRESET_AWAY, HOLD_MODE_TEMPERATURE, PRESET_NONE}
              /\ "set_schedule" \in Called(wr)
                   <=> /\ wr.preset_mode \in {HOLD_MODE_TEMPERATURE, PRESET_NONE}
                       /\ Returned(wr, "set_away", TRUE)

C7_Witness ==
    /\ wr.pc = "done"
    /\ wr.op = "set_temperature"
    /\ wr.hvac_mode = HVAC_MODE_COOL
    /\ Returned(wr, "set_mode", FALSE)
    /\ "set_setpoints" \notin Called(wr)

\* C8: once a client mutator called by a write path has returned false, the
\* write path has logged an error and has returned; it made no further call.
C8_FailedMutatorIsLogged ==
    FALSE \in {wr.results[i] : i \in 1 .. Len(wr.results)} =>
        /\ wr.pc = "done"
        /\ Len(wr.results) = Len(wr.calls)
        /\ wr.results[Len(wr.results)] = FALSE
        /\ wr.log # << >>
        /\ Last(wr.log) \in
             {"Failed to change the operation mode", "Failed to change the temperature",
              "Failed to change the fan mode", "Failed to change the target humidity level",
              "Failed to change the schedule/hold state"}

C8_Witness ==
    /\ wr.pc = "done"
    /\ wr.op = "set_preset_mode"
    /\ wr.results = <<TRUE, FALSE>>
    /\ wr.log = <<"Failed to change the schedule/hold state">>

\* a step in which the client of e is refreshed by a poll cycle of e, or
\* replaced by a new client in the setup of e
RefreshStep(e) ==
    \/ poll[e].pc \in {"update_info", "update_sensors"} /\ poll'[e] # poll[e]
    \/ setup[e] = "unset" /\ setup'[e] = "first_refresh"

\* C9: the snapshot of an entry changes only in a refresh step of its poll
\* cycle or setup, or in the step in which a client mutator called by a write
\* path of the entry returns, and then to what that mutator stores: no step
\* of a write path assigns a client attribute itself.
C9_SnapshotChangedByClientOnly ==
    [][\A e \in Entries :
          client'[e] # client[e] =>
             \/ RefreshStep(e)
             \/ /\ wr.pc = "call"
                /\ wr.entry = e
                /\ Len(wr'.results) = Len(wr.results) + 1
                /\ client'[e] = ClientMutator(client[e], Last(wr.calls), TRUE)]_vars

C9_Witness ==
    /\ wr.pc = "done"
    /\ wr.op = "set_humidity"
    /\ wr.humidity = MaxValue
    /\ wr.results = <<FALSE>>
    /\ client[wr.entry].hum_setpoint = MaxValue

C11_SensorIdStable ==
    \A e \in Entries : \A r \in unique_ids[e] :
        r.kind = "VenstarSensor" =>
            VenstarSensorUniqueId(config_entry[e], r.sensor, r.attr, client[e])
              = r.unique_id

C11_Witness ==
    /\ \E r \in unique_ids["entry1"] : r.kind = "VenstarSensor"
    /\ client["entry1"].sensor = NoneValue
    /\ cycle["entry1"].info = "timeout"
    /\ wr.pc = "done"
    /\ wr.results = <<TRUE>>

\* C12 (as claimed): an entry whose async_setup_entry returned True has been
\* forwarded to the climate, the sensor and the binary_sensor platform.
C12_AllPlatformsForwarded ==
    \A e \in Entries :
        setup[e] = "ready" /\ setup_result[e] = "True" =>
            {"climate", "sensor", "binary_sensor"} \subseteq platforms[e]

\* position of the call of fn in the calls of w (0: not called)
CallIndex(w, fn) ==
    IF fn \in Called(w)
      THEN CHOOSE i \in 1 .. Len(w.calls) : w.calls[i].fn = fn
      ELSE 0

\* a step in which the hub calls a write method of the thermostat
WriteStarts == nwrites' # nwrites

\* C13: set_temperature calls set_mode exactly when it is entered with an
\* hvac_mode whose vendor mode is not the snapshot's mode, and then as its
\* first client call; set_setpoints comes after it and only when set_mode
\* returned success; a failed set_mode is followed by no set_setpoints.
C13_ModeBeforeSetpoints ==
    /\ [](wr.op = "set_temperature" =>
            /\ CallIndex(wr, "set_mode") \in {0, 1}
            /\ "set_mode" \in Called(wr) /\ "set_setpoints" \in Called(wr) =>
                  /\ CallIndex(wr, "set_mode") < CallIndex(wr, "set_setpoints")
                  /\ Returned(wr, "set_mode", TRUE)
            /\ Returned(wr, "set_mode", FALSE) =>
                  "set_setpoints" \notin Called(wr) /\ wr.pc = "done")
    /\ [][/\ WriteStarts /\ wr'.op = "set_temperature" =>
              LET differs == /\ wr'.hvac_mode # NoneValue
                             /\ ModeMapGet(wr'.hvac_mode, NoneValue)
                                   # client[wr'.entry].mode
              IN  "set_mode" \in Called(wr') <=> differs
          /\ ~WriteStarts /\ wr'.op = "set_temperature" =>
              "set_mode" \in Called(wr') <=> "set_mode" \in Called(wr)]_vars

C13_Witness ==
    /\ wr.pc = "done"
    /\ wr.op = "set_temperature"
    /\ wr.hvac_mode = HVAC_MODE_COOL
    /\ wr.results = <<TRUE, TRUE>>
    /\ wr.calls[1].fn = "set_mode"
    /\ wr.calls[2].fn = "set_setpoints"

\* the step in which a set_temperature sends its set_setpoints
SendsSetpoints ==
    /\ wr'.op = "set_temperature"
    /\ "set_setpoints" \in Called(wr')
    /\ WriteStarts \/ "set_setpoints" \notin Called(wr)

\* what the claim requires of the setpoints sent in effective mode m, the
\* snapshot being snap when they are sent
SetpointsFor(w, m, snap) ==
    IF m = VENSTAR_MODE_HEAT THEN <<w.temperature, snap.cooltemp>>
    ELSE IF m = VENSTAR_MODE_COOL THEN <<snap.heattemp, w.temperature>>
    ELSE <<w.target_temp_low, w.target_temp_high>>

SetpointModes == {VENSTAR_MODE_HEAT, VENSTAR_MODE_COOL, VENSTAR_MODE_AUTO}

\* the effective mode as the claim has it: the requested hvac_mode if one is
\* given (a mode without a vendor mode is no setpoint mode), else the mode
\* of the snapshot
ClaimedEffectiveMode(w, snap) ==
    IF w.hvac_mode = NoneValue THEN snap.mode
    ELSE ModeMapGet(w.hvac_mode, "other")

\* the effective mode of the code: the vendor mode of the requested hvac_mode
\* when MODE_MAP has one, else the mode of the snapshot
EffectiveMode(w, snap) ==
    ModeMapGet(w.hvac_mode, snap.mode)

\* C14 (as claimed): a set_temperature that goes on to the setpoints (no
\* mode change it asked for failed) sends, in effective mode heat, cool or
\* auto, one set_setpoints with the setpoints of that mode; in any other
\* effective mode it has called no client mutator when it returns, and has
\* logged an error.
C14_SetpointOfEffectiveModeOnly ==
    /\ [](wr.op = "set_temperature" /\ wr.pc = "done"
            /\ ~Returned(wr, "set_mode", FALSE)
            /\ (IF wr.hvac_mode = NoneValue THEN wr.effective_mode
                 ELSE ModeMapGet(wr.hvac_mode, "other")) \notin SetpointModes
           => wr.calls = << >> /\ wr.log # << >>)
    /\ [][SendsSetpoints =>
            LET snap == client'[wr'.entry]
                m == ClaimedEffectiveMode(wr', snap)
            IN  /\ m \in SetpointModes
                /\ Last(wr'.calls).args = SetpointsFor(wr', m, snap)]_vars

\* C14 (amended): the effective mode is the vendor mode of the requested
\* hvac_mode when MODE_MAP has one, else the mode of the snapshot. In
\* effective mode heat, cool or auto set_temperature sends the setpoints of
\* that mode; in any other it sends no set_setpoints (the only client call
\* it can have made is the set_mode of a mode change) and logs the error.
C14_SetpointOfEffectiveMode ==
    /\ [](wr.op = "set_temperature" /\ wr.pc = "done"
            /\ ~Returned(wr, "set_mode", FALSE) =>
              IF wr.effective_mode \in SetpointModes
                THEN /\ Last(wr.calls).fn = "set_setpoints"
                     /\ Called(wr) \subseteq {"set_mode", "set_setpoints"}
                ELSE /\ Called(wr) \subseteq {"set_mode"}
                     /\ "Failed to change the temperature" = Last(wr.log))
    /\ [][SendsSetpoints =>
            LET snap == client'[wr'.entry]
                m == EffectiveMode(wr', snap)
            IN  /\ m \in SetpointModes
                /\ m = wr'.effective_mode
                /\ Last(wr'.calls).args = SetpointsFor(wr', m, snap)]_vars

C14_Witness ==
    /\ wr.pc = "done"
    /\ wr.op = "set_temperature"
    /\ wr.hvac_mode = HVAC_MODE_OFF
    /\ wr.results = <<TRUE>>
    /\ Called(wr) = {"set_mode"}
    /\ Len(wr.log) = 2

\* the argument of the call of fn in w
SentTo(w, fn) == w.calls[CallIndex(w, fn)].args[1]

\* C15: after a set_preset_mode(p), p being away, temperature or none, whose
\* mutators all returned success and whose flags are in the snapshot,
\* preset_mode returns p; preset_mode returns away in every state whose away
\* flag is set; a set_preset_mode of another preset calls no client mutator.
C15_PresetRoundTrip ==
    /\ wr.pc = "done" /\ wr.op = "set_preset_mode"
         /\ wr.preset_mode \in {PRESET_AWAY, HOLD_MODE_TEMPERATURE, PRESET_NONE}
         /\ FALSE \notin {wr.results[i] : i \in 1 .. Len(wr.results)}
         /\ client[wr.entry].away = SentTo(wr, "set_away")
         /\ ("set_schedule" \in Called(wr) =>
                client[wr.entry].schedule = SentTo(wr, "set_schedule"))
         => preset_mode(client[wr.entry]) = wr.preset_mode
    /\ \A e \in Entries :
          client[e].away = VENSTAR_AWAY_AWAY => preset_mode(client[e]) = PRESET_AWAY
    /\ wr.op = "set_preset_mode"
         /\ wr.preset_mode \notin {PRESET_AWAY, HOLD_MODE_TEMPERATURE, PRESET_NONE}
         => wr.calls = << >>

C15_Witness ==
    /\ wr.pc = "done"
    /\ wr.op = "set_preset_mode"
    /\ wr.preset_mode = PRESET_AWAY
    /\ wr.results = <<TRUE>>
    /\ client[wr.entry].away = VENSTAR_AWAY_AWAY
    /\ client[wr.entry].schedule = VENSTAR_SCHEDULE_DISABLED
    /\ preset_mode(client[wr.entry]) = PRESET_AWAY

\* a step in which the stored options of e change
OptionsChange(e) == config_entry'[e].options # config_entry[e].options

\* C16: the options of an entry change only in an async_step_init that
\* returns create_entry, to the submitted options, whose scan interval is
\* not smaller than their timeout; a submission whose scan interval is
\* smaller than its timeout gets the form again with timeout_high and leaves
\* the stored options as they were.
C16_OptionsStoredOnlyIfConsistent ==
    [][\A e \in Entries :
        LET result == options_flow'[e] IN
        /\ OptionsChange(e) =>
              /\ result.type = "create_entry"
              /\ config_entry'[e].options = result.data
        /\ options_flow'[e] # options_flow[e] =>
              /\ result.type = "create_entry" =>
                    /\ result.data # NoInput
                    /\ result.data.scan_interval >= result.data.timeout
                    /\ config_entry'[e].options = result.data
              /\ result.data # NoInput
                    /\ result.data.scan_interval < result.data.timeout =>
                    /\ result.type = "form"
                    /\ result.errors = "timeout_high"
                    /\ ~OptionsChange(e)]_vars

C16_Witness ==
    \E e \in Entries :
        /\ options_flow[e].type = "form"
        /\ options_flow[e].errors = "timeout_high"
        /\ options_flow[e].data.scan_interval = DEFAULT_CONF_TIMEOUT
        /\ options_flow[e].data.timeout = DEFAULT_CONF_SCAN_INTERVAL
        /\ config_entry[e].options # NoOptions
        /\ config_entry[e].options # options_flow[e].data

\* C17: once async_unload_entry has returned, it returned True exactly when
\* every platform unloaded, the record of the entry is gone exactly then, and
\* the options listener is detached either way; a step that changes the
\* options of an entry calls its update listener (a reload is due) exactly
\* when the listener is attached, so not after a failed unload.
C17_UnloadRemovesRecordWhenAllUnloaded ==
    /\ [](\A e \in Entries :
            LET result == unload_result[e] IN
            result.returned # NoneValue =>
              /\ result.returned = PyBool(result.unloaded = PLATFORMS)
              /\ e \in registered <=> result.returned = "False"
              /\ e \notin listeners)
    /\ [][\A e \in Entries :
            /\ OptionsChange(e) =>
                  (e \in reload_requested' <=>
                     e \in listeners \/ e \in reload_requested)
            /\ OptionsChange(e) /\ unload_result[e].returned = "False" =>
                  /\ e \in registered'
                  /\ reload_requested' = reload_requested]_vars

\* options were stored after a failed unload (they are not the ones the
\* coordinator was made with), and no reload is due
C17_Witness ==
    \E e \in Entries :
        /\ unload_result[e].returned = "False"
        /\ unload_result[e].unloaded = {"climate"}
        /\ e \in registered
        /\ options_flow[e].type = "create_entry"
        /\ config_entry[e].options.scan_interval = MaxSeconds
        /\ applied[e].interval = DEFAULT_CONF_SCAN_INTERVAL
        /\ e \notin reload_requested

\* C18 (as claimed): the coordinator of every entry that is set up runs with
\* a timeout that is not larger than its interval.
C18_TimeoutWithinInterval ==
    \A e \in Entries :
        setup[e] \in {"first_refresh", "ready"} =>
            applied[e].timeout <= applied[e].interval

\* the refresh calls in progress on the client of e: the one the current
\* cycle awaits and the ones left running by cycles that timed out
RefreshCallsInProgress(e) ==
    Len(executor[e])
      + (IF poll[e].pc \in {"update_info", "update_sensors"} THEN 1 ELSE 0)

\* C19 (as claimed): at most one refresh call is in progress on the client of
\* an entry at any time; a call of a cycle that timed out is over when the
\* next cycle issues its first call.
C19_OneRefreshCallInProgress ==
    \A e \in Entries : RefreshCallsInProgress(e) <= 1

\* C20 (as claimed): no two adapters registered for an entry share a
\* unique id, and no unique id or device identifier of a VenstarSensor equals
\* the unique id of a runtime sensor, of an alert sensor or the thermostat's
\* identifier, whatever names the device reports.
C20_IdentifiersDistinct ==
    \A e \in Entries : \A r1 \in unique_ids[e] :
        /\ \A r2 \in unique_ids[e] :
              /\ r1 # r2 => r1.unique_id # r2.unique_id
              /\ r1.kind = "VenstarSensor" /\ r2.kind # "VenstarSensor" =>
                    /\ r1.device # r2.unique_id
                    /\ r1.device # r2.device
        /\ r1.kind = "VenstarSensor" =>
              \A alert \in AlertNames :
                  LET id == VenstarAlertSensorUniqueId(config_entry[e], alert) IN
                  r1.unique_id # id /\ r1.device # id

\* C21 (as claimed): the unique id of every entry a config flow created is
\* the identifier async_construct_unique_id derives from the host, the port
\* and the MAC address in the data of that entry (for some answer of the MAC
\* lookup when the data holds no address).
C21_UniqueIdOfEntryData ==
    \A created \in flow_entries :
        \E table \in MacTables :
            created.unique_id =
                async_construct_unique_id(table, created.data.host,
                                          created.data.port, created.data.mac)

====
